---- MODULE Spec2Model ----
(***************************************************************************)
(* Fixed-size, heapless delegates (delegate.h): the inline storage, the    *)
(* per-type call trampoline and operation table, and the two wrappers      *)
(* FuncNonCopyable (MoveDelegate) and FuncCopyable (Delegate).             *)
(*                                                                         *)
(* A wrapper is modelled by its three members: args (the storage, here the *)
(* object whose bytes occupy it, whether an object was overwritten in it  *)
(* without being destroyed, and whether its last occupant was destroyed    *)
(* with nothing constructed since), call (the type whose trampoline        *)
(* typed_call<T> it points to) and vtable (the type whose Vtable it points *)
(* to).  All wrappers have the signature int(int).                         *)
(***************************************************************************)
EXTENDS Integers, Sequences, FiniteSets, TLC

----------------------------------------------------------------------------
(* Bounds of the model *)

\* number of wrapper objects the client program holds
NumWrappers == 2

\* largest argument a client passes to an invocation
MaxArg == 1

\* cap on ClassFixture::construct_count
MaxCount == 3

\* storage sizes 1..MaxSize and alignments 1, 2, .. 2^MaxAlignLog are tried
MaxSize == 16
MaxAlignLog == 3

Wrappers == 1..NumWrappers

Arguments == 1..MaxArg

----------------------------------------------------------------------------
(* Storage configuration and captured types *)

\* #define DELEGATE_ARGS_SIZE 24
DELEGATE_ARGS_SIZE == 24

\* #define DELEGATE_ARGS_ALIGN 8
DELEGATE_ARGS_ALIGN == 8

\* alignof(TemplateFunctorArgs<size, alignment>), whose only member is
\* alignas(alignment) std::array<char, size> args
alignof_TemplateFunctorArgs(size, alignment) == alignment

sizeof_unpadded(size, alignment) == size

\* sizeof(TemplateFunctorArgs<size, alignment>): the array, padded to a
\* multiple of the alignment
sizeof_TemplateFunctorArgs(size, alignment) ==
    ((size + alignment - 1) \div alignment) * alignment

\* alignof(FunctorArgs)
AlignofFunctorArgs ==
    alignof_TemplateFunctorArgs(DELEGATE_ARGS_SIZE, DELEGATE_ARGS_ALIGN)

\* sizeof(FunctorArgs)
SizeofFunctorArgs ==
    sizeof_TemplateFunctorArgs(DELEGATE_ARGS_SIZE, DELEGATE_ARGS_ALIGN)

\* decltype(badcall): the captureless lambda of the uncallable state
BadCall == "BadCall"

\* The captured types a client uses:
\*   Fn17  a pointer to func_int, which returns 17
\*   Fix   a lambda capturing a ClassFixture by value and calling func_int_int
\*   UPtr  a lambda capturing a unique_ptr<ClassFixture> and calling func_int_int
\*   Max   lambda24, six uint32_t captures: exactly the storage size
\*   Big   a lambda with seven uint32_t captures: one capture too many
Types == {"Fn17", "Fix", "UPtr", "Max", "Big"}

\* sizeof(T)
SizeOf(T) ==
    CASE T = "Fn17" -> 8
      [] T = "Fix" -> 8
      [] T = "UPtr" -> 8
      [] T = "Max" -> 24
      [] T = "Big" -> 28
      [] T = BadCall -> 1

\* std::alignment_of<T>::value
AlignOf(T) ==
    CASE T = "Fn17" -> 8
      [] T = "Fix" -> 4
      [] T = "UPtr" -> 8
      [] T = "Max" -> 4
      [] T = "Big" -> 4
      [] T = BadCall -> 1

\* can_emplace<T>() where FunctorArgs is TemplateFunctorArgs<size, alignment>
\* and T has the given sizeof and alignment_of
can_emplace_sized(size, alignment, sizeofT, alignofT) ==
    /\ sizeofT <= sizeof_TemplateFunctorArgs(size, alignment)
    /\ alignof_TemplateFunctorArgs(size, alignment) % alignofT = 0

\* can_emplace<T>()
can_emplace(T) ==
    can_emplace_sized(DELEGATE_ARGS_SIZE, DELEGATE_ARGS_ALIGN, SizeOf(T), AlignOf(T))

\* can_copy<T>(): std::is_copy_constructible<T>
can_copy(T) == T # "UPtr"

----------------------------------------------------------------------------
(* Objects *)

\* the null unique_ptr of a moved-from UPtr lambda
Null == -1

\* ClassFixture::in after construction
InitIn == 0

\* the values of the captured state (ClassFixture::in; 0 for stateless types)
Vals == {InitIn} \cup Arguments

\* no object: storage in which nothing was constructed, or whose occupant was destroyed
NoObj == [type |-> "None", val |-> 0, moved |-> FALSE]

\* a callable as the client creates it
NewFunctor(T) == [type |-> T, val |-> InitIn, moved |-> FALSE]

\* T(std::move(o)): the object a move constructor builds
MoveConstructed(o) == o

\* what a move constructor leaves behind: a unique_ptr is nulled, the other
\* types (function pointer, ClassFixture with only a copy constructor, ints)
\* are left as they were
MovedFrom_keeps_pointer(o) == [o EXCEPT !.moved = TRUE]

MovedFrom(o) ==
    [o EXCEPT !.val = IF o.type = "UPtr" THEN Null ELSE o.val, !.moved = TRUE]

\* ClassFixture constructions caused by constructing one object of type T from
\* another (Fix: ClassFixture's copy constructor; UPtr: the pointee is not touched)
ConstructCount(T) == IF T = "Fix" THEN 1 ELSE 0

\* ClassFixture constructions caused by the client creating a callable of type T
\* (Fix: the captured fixture; UPtr: new ClassFixture)
NewFunctorCount(T) == IF T \in {"Fix", "UPtr"} THEN 1 ELSE 0

\* ClassFixture destructions caused by destroying the object o
\* (Fix: ~ClassFixture; UPtr: the pointee is deleted unless the pointer is null)
DestructCount(o) ==
    IF o.type = "Fix" THEN 1
    ELSE IF o.type = "UPtr" /\ o.val # Null THEN 1
    ELSE 0

\* ClassFixture objects deleted by destroying the object o: a unique_ptr that
\* is not null deletes its pointee
DeleteCount(o) == IF o.type = "UPtr" /\ o.val # Null THEN 1 ELSE 0

\* ClassFixture objects the client allocates with new to create a callable of type T
NewCount(T) == IF T = "UPtr" THEN 1 ELSE 0

\* the functor's operator(): result and captured state afterwards
\*   func_int: return 17;  func_int_int(i): in = i; return 101 + i;
\*   lambda24: sparam5 = param5 (666);  the seven-capture lambda: 777
CallFunctor(T, val, arg) ==
    CASE T = "Fn17" -> [res |-> 17, val |-> val]
      [] T = "Fix" -> [res |-> 101 + arg, val |-> arg]
      [] T = "UPtr" -> [res |-> 101 + arg, val |-> arg]
      [] T = "Max" -> [res |-> 666, val |-> val]
      [] T = "Big" -> [res |-> 777, val |-> val]

----------------------------------------------------------------------------
(* State *)

VARIABLES
    wrappers,         \* wrapper -> [alive, kind, call, vtable, cur, buried, destroyed]
    construct_count,  \* ClassFixture::construct_count
    destruct_count,   \* ClassFixture::destruct_count
    terminated,       \* std::terminate() was called, or the process crashed
    ub,               \* the execution has had undefined behaviour
    heap,             \* ClassFixture objects allocated with new and not yet deleted
    probe,            \* an instantiation of can_emplace: its parameters and value
    last              \* the most recent operation, its inputs, result and steps

vars == <<wrappers, construct_count, destruct_count, terminated, ub, heap, probe, last>>

\* a wrapper that does not exist (not yet constructed, or destroyed)
NoWrapper ==
    [alive |-> FALSE, kind |-> "NC", call |-> BadCall, vtable |-> BadCall,
     cur |-> NoObj, buried |-> FALSE, destroyed |-> FALSE]

\* can_emplace not instantiated: the configuration of the tests
NoProbe ==
    [size |-> DELEGATE_ARGS_SIZE, alignment |-> DELEGATE_ARGS_ALIGN,
     sizeofT |-> 1, alignofT |-> 1, done |-> FALSE, fits |-> FALSE]

\* no result: the operation returns nothing, or did not return
NoRes == -1

----------------------------------------------------------------------------
(* The steps of the operations.  A step takes the machine m =               *)
(* [ws, cc, dc, ub, heap, term, tr, res] (wrappers, the counters, undefined *)
(* behaviour seen, heap, terminated, the steps so far, result) and gives the*)
(* set of machines it can lead to: one for defined behaviour, several where *)
(* the behaviour is undefined.  After termination nothing runs.             *)

Emit(m, name, T) == [m EXCEPT !.tr = Append(@, <<name, T>>)]

\* the process dies: std::terminate(), or a crash
Die(m) == [m EXCEPT !.term = TRUE]

\* ::new (&get_typed_functor<T>(args)) T(...): obj now occupies the storage of
\* w.  An occupant that was not destroyed is overwritten and never destroyed.
\* An object larger than the storage is written past its end.
PlacementNew(m, w, obj) ==
    LET s == m.ws[w]
        placed == [m EXCEPT !.ws[w].cur = obj,
                            !.ws[w].buried = @ \/ s.cur # NoObj,
                            !.ws[w].destroyed = FALSE,
                            !.cc = @ + ConstructCount(obj.type)]
    IN  IF SizeOf(obj.type) <= SizeofFunctorArgs
        THEN {placed}
        ELSE {[placed EXCEPT !.ub = TRUE], Die([m EXCEPT !.ub = TRUE])}

\* store_functor<T>(args, to_store)
store_functor(T, m, w, to_store) ==
    IF m.term THEN {m}
    ELSE PlacementNew(Emit(m, "construct", T), w,
                      [type |-> T, val |-> to_store.val, moved |-> to_store.moved])

\* move_functor<T>(args, to_move)
move_functor(T, m, w, to_move) ==
    IF m.term THEN {m}
    ELSE PlacementNew(Emit(m, "construct", T), w,
                      [MoveConstructed(to_move) EXCEPT !.type = T])

\* get_typed_functor<T>(args) is the object of type T that lives in args
IsTyped(T, s) == s.cur.type = T

\* a copy that moves: the source object is left moved-from
typed_copy_moves(T, m, dst, src) ==
    IF m.term \/ T = BadCall THEN {m}
    ELSE store_functor(T, [Emit(m, "copy", T) EXCEPT !.ws[src].cur = MovedFrom(@)],
                       dst, m.ws[src].cur)

\* Vtable::typed_copy<T>(lhs, rhs), lhs the storage of dst, rhs that of src
typed_copy(T, m, dst, src) ==
    IF m.term THEN {m}
    ELSE LET m1 == Emit(m, "copy", T) IN
         IF T = BadCall THEN {m1}
         ELSE IF ~can_copy(T) THEN {Die(m1)}
         ELSE IF IsTyped(T, m1.ws[src]) THEN store_functor(T, m1, dst, m1.ws[src].cur)
         ELSE LET m2 == [m1 EXCEPT !.ub = TRUE] IN
              {Die(m2)} \cup
              UNION {store_functor(T, m2, dst, [type |-> T, val |-> g, moved |-> FALSE]) :
                     g \in Vals}

\* Vtable::typed_move<T>(lhs, rhs), lhs the storage of dst, rhs that of src
typed_move(T, m, dst, src) ==
    IF m.term THEN {m}
    ELSE LET m1 == Emit(m, "move", T) IN
         IF T = BadCall THEN {m1}
         ELSE IF IsTyped(T, m1.ws[src])
         THEN move_functor(T, [m1 EXCEPT !.ws[src].cur = MovedFrom(@)], dst, m1.ws[src].cur)
         ELSE LET m2 == [m1 EXCEPT !.ub = TRUE] IN
              {Die(m2)} \cup
              UNION {move_functor(T, m2, dst, [type |-> T, val |-> g, moved |-> FALSE]) :
                     g \in Vals}

typed_destroy_twice(T, m, w) ==
    IF m.term THEN {m}
    ELSE LET m1 == Emit(Emit(m, "destroy", T), "destroy", T) IN
         IF T = BadCall THEN {m1}
         ELSE {[m1 EXCEPT !.ws[w].cur = NoObj, !.ws[w].destroyed = TRUE,
                          !.dc = @ + 2 * DestructCount(m1.ws[w].cur),
                          !.heap = @ - DeleteCount(m1.ws[w].cur)]}

\* Vtable::typed_destroy<T>(args), args the storage of w
typed_destroy(T, m, w) ==
    IF m.term THEN {m}
    ELSE LET m1 == Emit(m, "destroy", T) IN
         IF T = BadCall THEN {m1}
         ELSE IF IsTyped(T, m1.ws[w])
         THEN {[m1 EXCEPT !.ws[w].cur = NoObj, !.ws[w].destroyed = TRUE,
                          !.dc = @ + DestructCount(m1.ws[w].cur),
                          !.heap = @ - DeleteCount(m1.ws[w].cur)]}
         ELSE LET m2 == [m1 EXCEPT !.ub = TRUE] IN
              \* ~T() runs on bytes that are no T: ~ClassFixture still counts
              {Die(m2), [m2 EXCEPT !.dc = @ + (IF T = "Fix" THEN 1 ELSE 0)]}

\* a badcall that returns a value-initialised Result instead of terminating
badcall_returns(m) == [m EXCEPT !.res = 0]

\* badcall: [](Arguments...) -> Result {std::terminate();}
badcall(m) == Die(m)

\* a trampoline that calls a copy of the stored functor: the result is right,
\* the captured state in the storage is not updated
typed_call_by_value(T, m, w, arg) ==
    IF m.term THEN {m}
    ELSE LET m1 == Emit(m, "call", T) IN
         IF T = BadCall THEN {badcall(m1)}
         ELSE {[m1 EXCEPT !.res = CallFunctor(T, m1.ws[w].cur.val, arg).res]}

\* typed_call<T, Result, Arguments...>(args, arguments), args the storage of w
typed_call(T, m, w, arg) ==
    IF m.term THEN {m}
    ELSE LET m1 == Emit(m, "call", T) IN
         IF T = BadCall THEN {badcall(m1)}
         ELSE IF IsTyped(T, m1.ws[w]) /\ m1.ws[w].cur.val # Null
         THEN LET r == CallFunctor(T, m1.ws[w].cur.val, arg)
              IN  {[m1 EXCEPT !.ws[w].cur.val = r.val, !.res = r.res]}
         ELSE LET m2 == [m1 EXCEPT !.ub = TRUE] IN
              {Die(m2)} \cup {[m2 EXCEPT !.res = CallFunctor(T, g, arg).res] : g \in Vals}

set_call_by_type_keeps_call(T, m, w) ==
    IF m.term \/ T # BadCall THEN m
    ELSE [Emit(m, "set_call", T) EXCEPT !.ws[w].call = T]

\* set_call_by_type<T>
set_call_by_type(T, m, w) ==
    IF m.term THEN m ELSE [Emit(m, "set_call", T) EXCEPT !.ws[w].call = T]

\* set_vtable_by_type<T>
set_vtable_by_type(T, m, w) ==
    IF m.term THEN m ELSE [Emit(m, "set_vtable", T) EXCEPT !.ws[w].vtable = T]

\* a set_bad_call that leaves the trampoline as it is
set_bad_call_skipped(m, w) == m

\* set_bad_call()
set_bad_call(m, w) == set_call_by_type(BadCall, m, w)

\* check_same_call(check): call == &check
check_same_call(s, T) == s.call = T

\* explicit operator bool()
Bool(s) == ~check_same_call(s, BadCall)

----------------------------------------------------------------------------
(* The constructors, assignment operators, call operator and destructor.   *)
(* Each takes the machine and gives the set of machines it can lead to.    *)

\* a wrapper under construction, after its member initialisers
Constructed(kind, call_type, vtable_type) ==
    [alive |-> TRUE, kind |-> kind, call |-> call_type, vtable |-> vtable_type,
     cur |-> NoObj, buried |-> FALSE, destroyed |-> FALSE]

DefaultConstructor_null_members(m, w, kind) ==
    {[m EXCEPT !.ws[w] = Constructed(kind, "nullptr", "nullptr")]}

\* FuncNonCopyable::FuncNonCopyable() and FuncCopyable::FuncCopyable()
DefaultConstructor(m, w, kind) ==
    {[m EXCEPT !.ws[w] = Constructed(kind, BadCall, BadCall)]}

\* FuncNonCopyable::FuncNonCopyable(T &&functor); static_assert(can_emplace<T>())
\* is the guard of the action
FuncNonCopyable_Functor(T, m, w, functor) ==
    move_functor(T, [m EXCEPT !.ws[w] = Constructed("NC", T, T)], w, functor)

\* FuncCopyable::FuncCopyable(const T& functor); static_assert(can_copy<T>())
\* is the guard of the action
FuncCopyable_Functor(T, m, w, functor) ==
    store_functor(T, [m EXCEPT !.ws[w] = Constructed("C", T, T)], w, functor)

\* a move constructor that puts the source back to the sentinel table as well
FuncNonCopyable_Move_resets_table(m, w, other) ==
    LET m1 == [m EXCEPT !.ws[w] = Constructed("NC", m.ws[other].call, m.ws[other].vtable)]
    IN  {set_vtable_by_type(BadCall, set_bad_call(m2, other), other) :
         m2 \in typed_move(m1.ws[other].vtable, m1, w, other)}

\* FuncNonCopyable::FuncNonCopyable(FuncNonCopyable &&other)
FuncNonCopyable_Move(m, w, other) ==
    LET m1 == [m EXCEPT !.ws[w] = Constructed("NC", m.ws[other].call, m.ws[other].vtable)]
    IN  {set_bad_call(m2, other) : m2 \in typed_move(m1.ws[other].vtable, m1, w, other)}

\* FuncNonCopyable::operator=(T &&functor)
FuncNonCopyable_AssignFunctor_destroys_last(T, m, w, functor) ==
    UNION {typed_destroy(m.ws[w].vtable,
                         set_vtable_by_type(T, set_call_by_type(T, m2, w), w), w) :
           m2 \in move_functor(T, m, w, functor)}

FuncNonCopyable_AssignFunctor(T, m, w, functor) ==
    UNION {{set_vtable_by_type(T, set_call_by_type(T, m2, w), w) :
            m2 \in move_functor(T, m1, w, functor)} :
           m1 \in typed_destroy(m.ws[w].vtable, m, w)}

\* an assignment that adopts the trampoline and forgets the table
adopt_call_only(m, w, other) ==
    IF m.term THEN m
    ELSE [Emit(m, "adopt_call", m.ws[other].call) EXCEPT !.ws[w].call = m.ws[other].call]

\* this->call = other.call; this->vtable = other.vtable;
adopt(m, w, other) ==
    IF m.term THEN m
    ELSE [Emit(Emit(m, "adopt_call", m.ws[other].call), "adopt_vtable", m.ws[other].vtable)
          EXCEPT !.ws[w].call = m.ws[other].call,
                 !.ws[w].vtable = m.ws[other].vtable]

\* FuncNonCopyable::operator=(FuncNonCopyable &&other)
FuncNonCopyable_AssignMove_moves_first(m, w, other) ==
    IF other = w THEN {m}
    ELSE UNION {{set_bad_call(adopt(m2, w, other), other) :
                 m2 \in typed_destroy(m.ws[w].vtable, m1, w)} :
                m1 \in typed_move(m.ws[other].vtable, m, w, other)}

FuncNonCopyable_AssignMove(m, w, other) ==
    IF other = w THEN {m}
    ELSE UNION {{set_bad_call(adopt(m2, w, other), other) :
                 m2 \in typed_move(m1.ws[other].vtable, m1, w, other)} :
                m1 \in typed_destroy(m.ws[w].vtable, m, w)}

\* FuncNonCopyable::operator()(Arguments... arguments)
CallOperator_zero_when_uncallable(m, w, arg) ==
    IF m.ws[w].call = BadCall THEN {[m EXCEPT !.res = 0]}
    ELSE typed_call(m.ws[w].call, m, w, arg)

CallOperator(m, w, arg) == typed_call(m.ws[w].call, m, w, arg)

\* FuncNonCopyable::~FuncNonCopyable(); the storage ends with the wrapper
Destructor_without_destroy(m, w) ==
    {[m EXCEPT !.ws[w] = NoWrapper]}

Destructor(m, w) ==
    {IF m1.term THEN m1 ELSE [m1 EXCEPT !.ws[w] = NoWrapper] :
     m1 \in typed_destroy(m.ws[w].vtable, m, w)}

\* FuncCopyable::FuncCopyable(const FuncCopyable &other)
FuncCopyable_Copy(m, w, other) ==
    LET m1 == [m EXCEPT !.ws[w] = Constructed("C", m.ws[other].call, m.ws[other].vtable)]
    IN  typed_copy(m1.ws[w].vtable, m1, w, other)

\* FuncCopyable::operator=(const T& functor)
FuncCopyable_AssignFunctor(T, m, w, functor) ==
    {set_vtable_by_type(T, set_call_by_type(T, m1, w), w) :
     m1 \in store_functor(T, m, w, functor)}

FuncCopyable_AssignCopy_unguarded(m, w, other) ==
    UNION {{adopt(m2, w, other) :
            m2 \in typed_copy(m1.ws[w].vtable, m1, w, other)} :
           m1 \in typed_destroy(m.ws[w].vtable, m, w)}

\* FuncCopyable::operator=(const FuncCopyable &other)
FuncCopyable_AssignCopy(m, w, other) ==
    IF w = other THEN {m}
    ELSE UNION {{adopt(m2, w, other) :
                 m2 \in typed_copy(m1.ws[w].vtable, m1, w, other)} :
                m1 \in typed_destroy(m.ws[w].vtable, m, w)}

----------------------------------------------------------------------------
(* The client program: any sequence of operations on its wrappers.  A       *)
(* callable handed to a wrapper is a temporary the client creates for the   *)
(* operation and destroys after it.                                         *)

Start ==
    [ws |-> wrappers, cc |-> construct_count, dc |-> destruct_count, ub |-> ub,
     heap |-> heap, term |-> FALSE, tr |-> <<>>, res |-> NoRes]

\* the client creates the callable: its ClassFixture is constructed
WithFunctor(m, T) ==
    [m EXCEPT !.cc = @ + NewFunctorCount(T), !.heap = @ + NewCount(T)]

\* the client's callable goes out of scope
DropFunctor(m, functor) ==
    IF m.term THEN m
    ELSE [m EXCEPT !.dc = @ + DestructCount(functor), !.heap = @ - DeleteCount(functor)]

\* MoveDelegates and Delegates are unrelated classes that share no state: the
\* client has wrappers of one of them at a time
OnlyKind(kind) == \A v \in Wrappers : wrappers[v].alive => wrappers[v].kind = kind

\* after std::terminate() nothing runs, and after undefined behaviour nothing
\* can be said of what runs
Stopped == terminated \/ ub

\* an operation that may construct a ClassFixture runs while the count is below the cap
Running ==
    /\ ~Stopped
    /\ construct_count < MaxCount

Commit(m, op, w, src, T, arg) ==
    /\ wrappers' = m.ws
    /\ construct_count' = m.cc
    /\ destruct_count' = m.dc
    /\ ub' = m.ub
    /\ heap' = m.heap
    /\ probe' = probe
    /\ terminated' = m.term
    /\ last' = [op |-> op, w |-> w, src |-> src, type |-> T, arg |-> arg,
                res |-> m.res, tr |-> m.tr]

Init ==
    /\ wrappers = [w \in Wrappers |-> NoWrapper]
    /\ construct_count = 0
    /\ destruct_count = 0
    /\ terminated = FALSE
    /\ ub = FALSE
    /\ heap = 0
    /\ probe = NoProbe
    /\ last = [op |-> "Init", w |-> 1, src |-> 1, type |-> "None", arg |-> 0,
               res |-> NoRes, tr |-> <<>>]

\* MoveDelegate<int, int> w;  or  Delegate<int, int> w;
DefaultCtor(w, kind) ==
    /\ ~Stopped
    /\ ~wrappers[w].alive
    /\ OnlyKind(kind)
    /\ \E m \in DefaultConstructor(Start, w, kind) :
          Commit(m, "DefaultCtor", w, w, "None", 0)

\* MoveDelegate<int, int> w(std::move(f));
FunctorCtorNC(w, T) ==
    /\ Running
    /\ ~wrappers[w].alive
    /\ OnlyKind("NC")
    /\ can_emplace(T)
    /\ \E m \in FuncNonCopyable_Functor(T, WithFunctor(Start, T), w, NewFunctor(T)) :
          Commit(DropFunctor(m, MovedFrom(NewFunctor(T))), "FunctorCtor", w, w, T, 0)

\* Delegate<int, int> w(f);
FunctorCtorC_unchecked(w, T) ==
    /\ Running
    /\ ~wrappers[w].alive
    /\ OnlyKind("C")
    /\ \E m \in FuncCopyable_Functor(T, WithFunctor(Start, T), w, NewFunctor(T)) :
          Commit(DropFunctor(m, NewFunctor(T)), "FunctorCtor", w, w, T, 0)

FunctorCtorC(w, T) ==
    /\ Running
    /\ ~wrappers[w].alive
    /\ OnlyKind("C")
    /\ can_copy(T)
    /\ \E m \in FuncCopyable_Functor(T, WithFunctor(Start, T), w, NewFunctor(T)) :
          Commit(DropFunctor(m, NewFunctor(T)), "FunctorCtor", w, w, T, 0)

\* MoveDelegate<int, int> w(std::move(other));
MoveCtor(w, other) ==
    /\ Running
    /\ ~wrappers[w].alive
    /\ wrappers[other].alive /\ wrappers[other].kind = "NC"
    /\ \E m \in FuncNonCopyable_Move(Start, w, other) :
          Commit(m, "MoveCtor", w, other, "None", 0)

\* w = std::move(f);  on a MoveDelegate
FunctorAssignNC(w, T) ==
    /\ Running
    /\ wrappers[w].alive /\ wrappers[w].kind = "NC"
    /\ can_emplace(T)
    /\ \E m \in FuncNonCopyable_AssignFunctor(T, WithFunctor(Start, T), w, NewFunctor(T)) :
          Commit(DropFunctor(m, MovedFrom(NewFunctor(T))), "FunctorAssign", w, w, T, 0)

\* w = std::move(other);  on MoveDelegates, other possibly w itself
MoveAssign(w, other) ==
    /\ Running
    /\ wrappers[w].alive /\ wrappers[w].kind = "NC"
    /\ wrappers[other].alive /\ wrappers[other].kind = "NC"
    /\ \E m \in FuncNonCopyable_AssignMove(Start, w, other) :
          Commit(m, "MoveAssign", w, other, "None", 0)

\* Delegate<int, int> w(other);
CopyCtor(w, other) ==
    /\ Running
    /\ ~wrappers[w].alive
    /\ wrappers[other].alive /\ wrappers[other].kind = "C"
    /\ \E m \in FuncCopyable_Copy(Start, w, other) :
          Commit(m, "CopyCtor", w, other, "None", 0)

\* w = f;  on a Delegate
FunctorAssignC(w, T) ==
    /\ Running
    /\ wrappers[w].alive /\ wrappers[w].kind = "C"
    /\ can_emplace(T)
    /\ can_copy(T)
    /\ \E m \in FuncCopyable_AssignFunctor(T, WithFunctor(Start, T), w, NewFunctor(T)) :
          Commit(DropFunctor(m, NewFunctor(T)), "FunctorAssign", w, w, T, 0)

\* w = other;  on Delegates, other possibly w itself
CopyAssign(w, other) ==
    /\ Running
    /\ wrappers[w].alive /\ wrappers[w].kind = "C"
    /\ wrappers[other].alive /\ wrappers[other].kind = "C"
    /\ \E m \in FuncCopyable_AssignCopy(Start, w, other) :
          Commit(m, "CopyAssign", w, other, "None", 0)

\* The client moves from another wrapper, one that converts to true.
\* Delegate<int, int> w(std::move(other));  FuncCopyable declares a copy
\* constructor and no move constructor, and its base is protected: the rvalue
\* binds to FuncCopyable(const FuncCopyable &)
MoveCtorC(w, other) ==
    /\ Running
    /\ ~wrappers[w].alive
    /\ wrappers[other].alive /\ wrappers[other].kind = "C"
    /\ Bool(wrappers[other])
    /\ \E m \in FuncCopyable_Copy(Start, w, other) :
          Commit(m, "MoveCtorC", w, other, "None", 0)

\* w = std::move(other);  on Delegates: FuncCopyable's operator= hide those of
\* the base, and the rvalue binds to operator=(const FuncCopyable &)
MoveAssignC(w, other) ==
    /\ Running
    /\ wrappers[w].alive /\ wrappers[w].kind = "C"
    /\ wrappers[other].alive /\ wrappers[other].kind = "C"
    /\ w # other
    /\ Bool(wrappers[other])
    /\ \E m \in FuncCopyable_AssignCopy(Start, w, other) :
          Commit(m, "MoveAssignC", w, other, "None", 0)

\* w(arg);
Invoke(w, arg) ==
    /\ ~Stopped
    /\ wrappers[w].alive
    /\ \E m \in CallOperator(Start, w, arg) :
          Commit(m, "Invoke", w, w, "None", arg)

\* w goes out of scope
Dtor(w) ==
    /\ ~Stopped
    /\ wrappers[w].alive
    /\ \E m \in Destructor(Start, w) :
          Commit(m, "Dtor", w, w, "None", 0)

Next ==
    \/ \E w \in Wrappers, kind \in {"NC", "C"} : DefaultCtor(w, kind)
    \/ \E w \in Wrappers, T \in Types : FunctorCtorNC(w, T)
    \/ \E w \in Wrappers, T \in Types : FunctorCtorC(w, T)
    \/ \E w \in Wrappers, other \in Wrappers : MoveCtor(w, other)
    \/ \E w \in Wrappers, T \in Types : FunctorAssignNC(w, T)
    \/ \E w \in Wrappers, other \in Wrappers : MoveAssign(w, other)
    \/ \E w \in Wrappers, other \in Wrappers : CopyCtor(w, other)
    \/ \E w \in Wrappers, T \in Types : FunctorAssignC(w, T)
    \/ \E w \in Wrappers, other \in Wrappers : CopyAssign(w, other)
    \/ \E w \in Wrappers, other \in Wrappers : MoveCtorC(w, other)
    \/ \E w \in Wrappers, other \in Wrappers : MoveAssignC(w, other)
    \/ \E w \in Wrappers, arg \in Arguments : Invoke(w, arg)
    \/ \E w \in Wrappers : Dtor(w)

Spec == Init /\ [][Next]_vars

----------------------------------------------------------------------------
(* can_emplace over storage configurations and captured types *)

\* the alignments: powers of two
Alignments == {2 ^ k : k \in 0..MaxAlignLog}

\* a storage configuration <size, alignment> and a type: sizeof(T) is a
\* multiple of alignof(T)
ProbeInputs ==
    {[size |-> s, alignment |-> a, sizeofT |-> n * ta, alignofT |-> ta,
      done |-> FALSE, fits |-> FALSE] :
        s \in 1..MaxSize, a \in Alignments, ta \in Alignments,
        n \in 1..(MaxSize + 2 ^ MaxAlignLog)}

FitsInit ==
    /\ wrappers = [w \in Wrappers |-> NoWrapper]
    /\ construct_count = 0
    /\ destruct_count = 0
    /\ terminated = FALSE
    /\ ub = FALSE
    /\ heap = 0
    /\ probe \in {p \in ProbeInputs : p.sizeofT <= MaxSize + 2 ^ MaxAlignLog}
    /\ last = [op |-> "Init", w |-> 1, src |-> 1, type |-> "None", arg |-> 0,
               res |-> NoRes, tr |-> <<>>]

\* the compiler evaluates can_emplace<T>()
Instantiate ==
    /\ ~probe.done
    /\ probe' = [probe EXCEPT !.done = TRUE,
                              !.fits = can_emplace_sized(probe.size, probe.alignment,
                                                         probe.sizeofT, probe.alignofT)]
    /\ UNCHANGED <<wrappers, construct_count, destruct_count, terminated, ub, heap, last>>

FitsNext == Instantiate

FitsSpec == FitsInit /\ [][FitsNext]_vars

----------------------------------------------------------------------------
(* The states of a wrapper *)

\* Holding<T>: the storage holds a live T and trampoline and table are T's
Holding(s, T) ==
    s.alive /\ s.call = T /\ s.vtable = T /\ s.cur.type = T /\ ~s.cur.moved

\* Empty: sentinel trampoline and table, nothing in the storage
Empty(s) == s.alive /\ s.call = BadCall /\ s.vtable = BadCall /\ s.cur = NoObj

HoldingOrEmpty(s) == Empty(s) \/ \E T \in Types : Holding(s, T)

\* the wrapper the step just taken worked on, before and after it, and its source
Target == wrappers[last'.w]

TargetAfter == wrappers'[last'.w]

Source == wrappers[last'.src]

SourceAfter == wrappers'[last'.src]

----------------------------------------------------------------------------
(* C1 *)

C1_Constructed ==
    last'.op = "FunctorCtor" /\ can_emplace(last'.type) =>
        /\ ~terminated'
        /\ Holding(TargetAfter, last'.type)
        /\ TargetAfter.cur = NewFunctor(last'.type)
        /\ Bool(TargetAfter)

C1_Invoked ==
    last'.op = "Invoke" /\ (\E T \in Types : can_emplace(T) /\ Holding(Target, T)) =>
        LET f == CallFunctor(Target.call, Target.cur.val, last'.arg)
        IN  /\ ~terminated'
            /\ last'.res = f.res
            /\ TargetAfter = [Target EXCEPT !.cur.val = f.val]

\* C1: a wrapper of either kind constructed from a callable f of a type that
\* fits is Holding<T> with a copy of f in its storage and converts to true, and
\* invoking a wrapper that is Holding<T> returns what calling the stored
\* callable directly returns and changes the captured state as that call does.
C1_WrapperCallsFunctor == [][C1_Constructed /\ C1_Invoked]_vars

\* C1 witness: a wrapper made from func_int was invoked and returned 17
C1_Witness ==
    /\ last.op = "Invoke" /\ last.res = 17 /\ ~terminated
    /\ Holding(wrappers[last.w], "Fn17")

----------------------------------------------------------------------------
(* C2 *)

C2_Default ==
    last'.op = "DefaultCtor" => Empty(TargetAfter) /\ ~Bool(TargetAfter)

C2_Invoked ==
    last'.op = "Invoke" /\ Empty(Target) =>
        /\ terminated'
        /\ last'.res = NoRes
        /\ wrappers' = wrappers
        /\ construct_count' = construct_count /\ destruct_count' = destruct_count

----------------------------------------------------------------------------
(* C3 *)

C3_Moved ==
    /\ last'.op \in {"MoveCtor", "MoveAssign"}
    /\ last'.w # last'.src
    /\ HoldingOrEmpty(Source)
    => /\ ~terminated'
       /\ TargetAfter.call = Source.call
       /\ TargetAfter.vtable = Source.vtable
       /\ TargetAfter.cur = Source.cur
       /\ HoldingOrEmpty(TargetAfter)
       /\ ~Bool(SourceAfter)

C3_InvokedAfter ==
    last'.op = "Invoke" /\ ~Bool(Target) => terminated' /\ last'.res = NoRes

----------------------------------------------------------------------------
(* C4 *)

C4_Copied ==
    last'.op = "CopyCtor" /\ HoldingOrEmpty(Source) =>
        /\ ~terminated'
        /\ TargetAfter.call = Source.call
        /\ TargetAfter.vtable = Source.vtable
        /\ TargetAfter.cur = Source.cur
        /\ SourceAfter = Source
        /\ construct_count' = construct_count + ConstructCount(Source.cur.type)
        /\ last'.tr = <<<<"copy", Source.vtable>>>>
                      \o (IF Empty(Source) THEN <<>> ELSE <<<<"construct", Source.vtable>>>>)

C4_Independent ==
    last'.op = "Invoke" =>
        \A v \in Wrappers : v # last'.w => wrappers'[v] = wrappers[v]

\* C4: copy-constructing a copyable wrapper w2 from w1 (Holding<T> or Empty) gives
\* w2 the trampoline and table of w1 and its own object, made by T's copy
\* operation and equal to w1's; w1 is unchanged; and an invocation of one wrapper
\* changes the captured state of no other wrapper.
C4_CopyIsIndependent == [][C4_Copied /\ C4_Independent]_vars

\* C4 witness: after a copy construction from a wrapper holding a ClassFixture
\* lambda, one of the two was invoked and their captured states now differ
C4_Witness ==
    /\ last.op = "Invoke"
    /\ \E v \in Wrappers :
          /\ v # last.w
          /\ Holding(wrappers[v], "Fix") /\ Holding(wrappers[last.w], "Fix")
          /\ wrappers[v].kind = "C"
          /\ wrappers[v].cur.val # wrappers[last.w].cur.val

----------------------------------------------------------------------------
(* C5 *)

C5_CopyAssigned ==
    /\ last'.op = "CopyAssign"
    /\ last'.w # last'.src
    /\ HoldingOrEmpty(Source) /\ HoldingOrEmpty(Target)
    => /\ ~terminated' /\ ~ub'
       /\ \E i \in DOMAIN last'.tr : last'.tr[i] = <<"copy", Source.vtable>>
       /\ \A i \in DOMAIN last'.tr : last'.tr[i][1] = "copy" => last'.tr[i][2] = Source.vtable
       /\ TargetAfter.call = Source.call
       /\ TargetAfter.vtable = Source.vtable
       /\ TargetAfter.cur = Source.cur
       /\ SourceAfter = Source

\* C5: copy-assigning w2 = w1 between distinct copyable wrappers, each Empty or
\* Holding some type, builds the new occupant of w2 with the copy operation of
\* w1's table and adopts w1's trampoline and table: afterwards w2 has w1's
\* trampoline, table and an equal captured object, and w1 is unchanged.
C5_CopyAssignUsesSourceTable == [][C5_CopyAssigned]_vars

----------------------------------------------------------------------------
(* C6 *)

AllDestroyed == \A w \in Wrappers : ~wrappers[w].alive

\* C6: once every wrapper and every callable of the client has been destroyed,
\* ClassFixture::construct_count equals ClassFixture::destruct_count.
C6_CountsBalance ==
    AllDestroyed /\ ~terminated /\ ~ub => construct_count = destruct_count

----------------------------------------------------------------------------
(* C7 *)

\* C7: every construction and assignment from a callable is of a type that
\* satisfies can_emplace, and no storage holds an object that is larger or more
\* strictly aligned than the storage.
C7_OnlyFittingTypes ==
    /\ last.op \in {"FunctorCtor", "FunctorAssign"} => can_emplace(last.type)
    /\ \A w \in Wrappers :
          wrappers[w].alive /\ wrappers[w].cur # NoObj => can_emplace(wrappers[w].cur.type)

----------------------------------------------------------------------------
(* C8 *)

\* C8: no object is constructed into a storage whose previous occupant has not
\* been destroyed: at most one object is alive in a storage.
C8_OneObjectPerStorage == \A w \in Wrappers : ~wrappers[w].buried

----------------------------------------------------------------------------
(* C9 *)

----------------------------------------------------------------------------
(* C10 *)

\* a move-only wrapper that was moved from while Holding<U>
MovedFromState(s, U) ==
    /\ s.alive /\ s.kind = "NC"
    /\ s.call = BadCall /\ s.vtable = U
    /\ s.cur.type = U /\ s.cur.moved

\* the step destroys the wrapper it works on, or assigns over it
DestroysOrAssignsOver ==
    \/ last'.op \in {"Dtor", "FunctorAssign"}
    \/ last'.op = "MoveAssign" /\ last'.w # last'.src

DestroyEvents(tr) == {i \in DOMAIN tr : tr[i][1] = "destroy"}

\* C10 as claimed: when a wrapper that was moved from while Holding<U> is
\* destroyed or assigned over, the destructor of U is not run on its storage:
\* only the sentinel's destroy runs.
C10_Original ==
    [][\A U \in Types :
           DestroysOrAssignsOver /\ MovedFromState(Target, U) =>
               \A i \in DestroyEvents(last'.tr) : last'.tr[i][2] = BadCall]_vars

C10_MovedFrom ==
    \A U \in Types :
        /\ last'.op \in {"MoveCtor", "MoveAssign"}
        /\ last'.w # last'.src
        /\ Holding(Source, U)
        => /\ MovedFromState(SourceAfter, U)
           /\ SourceAfter.cur = MovedFrom(Source.cur)
           /\ ~Bool(SourceAfter)

C10_DestroyedOnce ==
    \A U \in Types :
        DestroysOrAssignsOver /\ MovedFromState(Target, U) =>
            /\ last'.tr[1] = <<"destroy", U>>
            /\ Cardinality(DestroyEvents(last'.tr)) = 1
            /\ last'.op = "Dtor" =>
                  /\ destruct_count' = destruct_count + DestructCount(Target.cur)
                  /\ \A v \in Wrappers : v # last'.w => wrappers'[v] = wrappers[v]

\* C10 as amended: after a move-only wrapper in state Holding<U> has been moved
\* from, its trampoline is the sentinel's (it converts to false) but its table is
\* still U's and the moved-from U is still in its storage; when that wrapper is
\* later destroyed or assigned over, the destructor of U runs exactly once on its
\* storage, on the moved-from object, and the object relocated to the destination
\* is not touched (a moved-from unique_ptr lambda releases nothing).
C10_MovedFromIsDestroyedByItsTable == [][C10_MovedFrom /\ C10_DestroyedOnce]_vars

\* C10 witness: a moved-from wrapper was destroyed through the table of the
\* unique_ptr lambda; nothing was released, and the other wrapper holds the lambda
C10_Witness ==
    /\ last.op = "Dtor"
    /\ last.tr = <<<<"destroy", "UPtr">>>>
    /\ destruct_count = 0
    /\ \E v \in Wrappers : Holding(wrappers[v], "UPtr")

----------------------------------------------------------------------------
(* C11 *)

C11_MovedCopyable ==
    \A T \in Types :
        /\ last'.op \in {"MoveCtorC", "MoveAssignC"}
        /\ last'.w # last'.src
        /\ Holding(Source, T)
        /\ last'.op = "MoveAssignC" => HoldingOrEmpty(Target)
        => /\ \E i \in DOMAIN last'.tr : last'.tr[i] = <<"move", T>>
           /\ \A i \in DOMAIN last'.tr : last'.tr[i][1] # "copy"
           /\ Holding(TargetAfter, T)
           /\ ~Bool(SourceAfter)

\* C11: move-constructing or move-assigning a copyable wrapper w2 from a distinct
\* copyable wrapper w1 that is Holding<T> transfers the captured object with T's
\* move operation, not its copy operation, and leaves w1 converting to false.
C11_CopyableWrapperMoves == [][C11_MovedCopyable]_vars

----------------------------------------------------------------------------
(* C12 *)

\* C12: in every state of either variant reached without undefined behaviour,
\* a live wrapper that converts to true holds in its storage a live object,
\* not moved from, of exactly the type its trampoline reinterprets the
\* storage as.
C12_TrueMeansLiveObject ==
    ~Stopped =>
        \A w \in Wrappers :
            wrappers[w].alive /\ Bool(wrappers[w]) =>
                /\ wrappers[w].cur.type = wrappers[w].call
                /\ ~wrappers[w].cur.moved

----------------------------------------------------------------------------
(* C13 *)

C13_Destroyed ==
    last'.op = "Dtor" =>
        /\ last'.tr = <<<<"destroy", Target.vtable>>>>
        /\ \A T \in Types :
               Holding(Target, T) =>
                   /\ destruct_count' = destruct_count + DestructCount(Target.cur)
                   /\ ~ub' /\ ~terminated'
        /\ Empty(Target) =>
               /\ destruct_count' = destruct_count
               /\ construct_count' = construct_count
               /\ ~ub' /\ ~terminated'
        /\ ~ub' => /\ ~TargetAfter.alive
                   /\ \A v \in Wrappers \ {last'.w} : wrappers'[v] = wrappers[v]

\* C13: destroying a wrapper invokes the destroy operation of its current table
\* exactly once: for a wrapper Holding<T> the destructor of the occupant runs
\* exactly once, and for an Empty wrapper no destructor of a captured type runs
\* and no counter and no other wrapper changes.
C13_DestructorDestroysOnce == [][C13_Destroyed]_vars

C13_Witness ==
    /\ last.op = "Dtor"
    /\ last.tr = <<<<"destroy", "Fix">>>>
    /\ destruct_count = 2
    /\ ~wrappers[last.w].alive

----------------------------------------------------------------------------
(* C14 *)

\* the wrappers whose captured unique_ptr owns a ClassFixture
Owners ==
    {w \in Wrappers : /\ wrappers[w].alive
                      /\ wrappers[w].cur.type = "UPtr"
                      /\ wrappers[w].cur.val # Null}

\* C14: across every sequence of operations on move-only wrappers, each
\* ClassFixture owned by a captured unique_ptr is owned by exactly one live
\* wrapper (never duplicated, not released while its holder is alive, released
\* once when the holder is destroyed or assigned over), and a moved-from
\* wrapper owns nothing, so that destroying it releases nothing.
C14_ResourceHasOneOwner ==
    /\ heap = Cardinality(Owners)
    /\ \A w \in Wrappers :
           wrappers[w].alive /\ wrappers[w].cur.type = "UPtr" =>
               /\ wrappers[w].kind = "NC"
               /\ wrappers[w].cur.moved <=> wrappers[w].cur.val = Null
               /\ wrappers[w].cur.moved <=> ~Bool(wrappers[w])

C14_Witness ==
    /\ last.op = "Dtor"
    /\ last.tr = <<<<"destroy", "UPtr">>>>
    /\ heap = 0
    /\ construct_count = 1
    /\ destruct_count = 1
    /\ \E v \in Wrappers : MovedFromState(wrappers[v], "UPtr")

----------------------------------------------------------------------------
(* C15 *)

\* the claim as stated: the captured type fits when it is no larger than
\* the configured size S and the alignment A is a multiple of its alignment
C15_Original ==
    probe.done =>
        (probe.fits <=> /\ probe.sizeofT <= probe.size
                        /\ probe.alignment % probe.alignofT = 0)

\* the smallest multiple of the alignment that is not less than the size
C15_Padded(size, alignment) ==
    CHOOSE p \in size..(size + alignment) :
        /\ p % alignment = 0
        /\ \A q \in size..(size + alignment) : q % alignment = 0 => p <= q

\* C15: for every storage size S and alignment A and every size and alignment of
\* a captured type in the range, can_emplace is true exactly when sizeof(T) is at
\* most S rounded up to the next multiple of A (the size of the storage object)
\* and A is a multiple of alignof(T).
C15_FitsPaddedStorage ==
    probe.done =>
        (probe.fits <=> /\ probe.sizeofT <= C15_Padded(probe.size, probe.alignment)
                        /\ probe.alignment % probe.alignofT = 0)

C15_Witness ==
    /\ probe.done
    /\ probe.size = 12 /\ probe.alignment = 8
    /\ probe.sizeofT = 16 /\ probe.alignofT = 8
    /\ probe.fits

----------------------------------------------------------------------------
(* C16 *)

\* the operations that copy a wrapper
C16_CopyOps == {"CopyCtor", "CopyAssign", "MoveCtorC", "MoveAssignC"}

\* C16: the copy operation in the table of a type that is not copy-constructible
\* terminates the process, and it is unreachable through the copyable wrapper:
\* in every state reached without undefined behaviour the table of a copyable
\* wrapper is that of a copy-constructible type or the sentinel's, and no copy
\* construction or copy assignment runs the copy of another type.
C16_NoTerminatingCopy ==
    /\ \A T \in Types, dst \in Wrappers, src \in Wrappers :
           ~can_copy(T) /\ dst # src =>
               \A m \in typed_copy(T, Start, dst, src) : m.term /\ m.ws = wrappers
    /\ ~ub =>
           \A w \in Wrappers :
               wrappers[w].alive /\ wrappers[w].kind = "C" =>
                   \/ wrappers[w].vtable = BadCall
                   \/ wrappers[w].vtable \in Types /\ can_copy(wrappers[w].vtable)
    /\ last.op \in C16_CopyOps =>
           \A i \in DOMAIN last.tr :
               last.tr[i][1] = "copy" =>
                   last.tr[i][2] = BadCall \/ can_copy(last.tr[i][2])

C16_Witness ==
    /\ last.op = "CopyAssign"
    /\ \E i \in DOMAIN last.tr : last.tr[i] = <<"copy", "Fn17">>
    /\ ~Stopped
    /\ \A w \in Wrappers : Holding(wrappers[w], "Fn17")

----------------------------------------------------------------------------
(* C17 *)

\* what a trampoline or table reference can validly refer to: the trampoline
\* and the table of a captured type or of the sentinel
C17_ValidTargets == Types \cup {BadCall}

\* C17: in every state reached without undefined behaviour the trampoline
\* reference and the table reference of every live wrapper are non-null: each
\* refers to the trampoline or table of a captured type or of the sentinel, and
\* every invocation and destruction dispatched through one of them.
C17_ReferencesNeverNull ==
    ~ub =>
        /\ \A w \in Wrappers :
               wrappers[w].alive =>
                   /\ wrappers[w].call \in C17_ValidTargets
                   /\ wrappers[w].vtable \in C17_ValidTargets
        /\ \A i \in DOMAIN last.tr : last.tr[i][2] \in C17_ValidTargets

C17_Witness ==
    /\ last.op = "Dtor"
    /\ last.tr = <<<<"destroy", BadCall>>>>
    /\ \E v \in Wrappers :
           /\ MovedFromState(wrappers[v], "Fix")
           /\ wrappers[v].call = BadCall
           /\ wrappers[v].vtable = "Fix"

----------------------------------------------------------------------------
(* C18 *)

\* a wrapper that was default-constructed, or moved from
C18_Uncallable(s) == Empty(s) \/ \E U \in Types : MovedFromState(s, U)

----------------------------------------------------------------------------
(* C19 *)

\* the steps of dst = std::move(src), in order, for the tables and the
\* trampoline the two wrappers have before it
C19_Steps(dstTable, srcCall, srcTable) ==
    <<<<"destroy", dstTable>>, <<"move", srcTable>>>>
    \o (IF srcTable = BadCall THEN <<>> ELSE <<<<"construct", srcTable>>>>)
    \o <<<<"adopt_call", srcCall>>, <<"adopt_vtable", srcTable>>,
         <<"set_call", BadCall>>>>

C19_Assigned == last'.op = "MoveAssign" /\ last'.w # last'.src

\* the claim as stated: after the steps the source is in the sentinel state,
\* its trampoline and its table the sentinel's
C19_Original ==
    [][C19_Assigned =>
           /\ last'.tr = C19_Steps(Target.vtable, Source.call, Source.vtable)
           /\ SourceAfter.call = BadCall
           /\ SourceAfter.vtable = BadCall]_vars

\* C19: move-assignment dst = std::move(src) between distinct move-only wrappers
\* runs in this order: dst's current occupant is destroyed through dst's current
\* table, src's occupant is moved into dst's storage through src's table, dst
\* adopts src's trampoline and table, and finally the trampoline of src becomes
\* the sentinel's, while the table of src stays what it was.
C19_MoveAssignOrder ==
    [][C19_Assigned =>
           /\ last'.tr = C19_Steps(Target.vtable, Source.call, Source.vtable)
           /\ TargetAfter.call = Source.call
           /\ TargetAfter.vtable = Source.vtable
           /\ SourceAfter.call = BadCall
           /\ SourceAfter.vtable = Source.vtable]_vars

C19_Witness ==
    /\ last.op = "MoveAssign" /\ last.w # last.src
    /\ Len(last.tr) = 6
    /\ last.tr[1] = <<"destroy", "Fn17">>
    /\ last.tr[2] = <<"move", "UPtr">>
    /\ last.tr[6] = <<"set_call", BadCall>>
    /\ Holding(wrappers[last.w], "UPtr")
    /\ MovedFromState(wrappers[last.src], "UPtr")

----------------------------------------------------------------------------
(* C20 *)

C20_Assigned(T) ==
    /\ last'.op = "FunctorAssign"
    /\ last'.type = T
    /\ Target.kind = "NC"
    /\ \/ Empty(Target)
       \/ \E U \in Types : Holding(Target, U) \/ MovedFromState(Target, U)

\* C20: assigning a bare callable of type T to a move-only wrapper that is
\* Empty, Holding<U> or moved from first destroys the current occupant through
\* the current table, only then constructs the T in the storage and sets the
\* trampoline and the table to T's; afterwards the wrapper is Holding<T> with
\* the callable as the client made it, and converts to true.
C20_AssignDestroysFirst ==
    [][\A T \in Types :
           C20_Assigned(T) =>
               /\ last'.tr = <<<<"destroy", Target.vtable>>, <<"construct", T>>,
                               <<"set_call", T>>, <<"set_vtable", T>>>>
               /\ Holding(TargetAfter, T)
               /\ TargetAfter.cur = NewFunctor(T)
               /\ ~TargetAfter.buried
               /\ Bool(TargetAfter)
               /\ ~terminated' /\ ~ub'
               /\ destruct_count' = destruct_count + DestructCount(Target.cur)
                                    + DestructCount(MovedFrom(NewFunctor(T)))]_vars

C20_Witness ==
    /\ last.op = "FunctorAssign"
    /\ last.tr[1] = <<"destroy", "UPtr">>
    /\ last.type = "Fix"
    /\ Holding(wrappers[last.w], "Fix")
    /\ wrappers[last.w].kind = "NC"
    /\ heap = 0
    /\ destruct_count = 2

----------------------------------------------------------------------------
(* C21 *)

\* a table operation of a captured type T ran in the step: destroy runs on the
\* storage of the wrapper the operation works on, copy and move read the
\* storage of the source; each storage is as it was before the step, since
\* destroy is the first step on the target and the source is another wrapper
C21_AppliedToOwnType(e) ==
    e[2] \in Types =>
        /\ e[1] = "destroy" => Target.cur.type = e[2]
        /\ e[1] \in {"copy", "move"} => Source.cur.type = e[2]

\* C21: across every sequence of operations on either variant, every table
\* operation (destroy, copy, move) is applied to storage whose current object
\* was constructed as the table's own type.
C21_NoTypeConfusion ==
    [][\A i \in DOMAIN last'.tr : C21_AppliedToOwnType(last'.tr[i])]_vars

----------------------------------------------------------------------------
(* C22 *)

\* the ClassFixture objects alive in the wrappers' storage or owned by a
\* captured unique_ptr
C22_Live ==
    Cardinality({w \in Wrappers : wrappers'[w].alive /\ wrappers'[w].cur.type = "Fix"})
    + heap'

\* the destructor of a captured type runs in the step on storage whose last
\* occupant was already destroyed
C22_DestroyedAgain ==
    /\ Target.destroyed
    /\ \E i \in DestroyEvents(last'.tr) : last'.tr[i][2] \in Types

C22_Relocated ==
    /\ last'.op \in {"MoveCtor", "MoveAssign"}
    /\ last'.w # last'.src
    => \A U \in Types :
           Holding(Source, U) =>
               /\ Holding(TargetAfter, U) /\ ~TargetAfter.destroyed
               /\ MovedFromState(SourceAfter, U) /\ ~SourceAfter.destroyed
               /\ destruct_count' = destruct_count + DestructCount(Target.cur)

\* C22: across every sequence of constructions, copies, moves, assignments and
\* destructions no captured object is destroyed more than once: an operation
\* runs destroy at most once, never on storage whose last occupant was already
\* destroyed, and no more ClassFixtures are destroyed than were constructed and
\* are no longer alive; a move leaves one live object in the destination and
\* the moved-from remainder in the source, each still to be destroyed.
C22_NoDoubleDestroy ==
    [][/\ last'.tr # <<>> =>
              /\ Cardinality(DestroyEvents(last'.tr)) <= 1
              /\ ~C22_DestroyedAgain
       /\ ~ub' => destruct_count' + C22_Live <= construct_count'
       /\ C22_Relocated]_vars

C22_Witness ==
    /\ last.op = "Dtor"
    /\ last.tr = <<<<"destroy", "Fix">>>>
    /\ construct_count = 3
    /\ destruct_count = 2
    /\ ~wrappers[last.w].alive
    /\ \E v \in Wrappers : Holding(wrappers[v], "Fix") /\ wrappers[v].kind = "NC"

----------------------------------------------------------------------------
(* C23 *)

C23_SelfAssigned ==
    /\ last'.op \in {"MoveAssign", "CopyAssign"}
    /\ last'.w = last'.src

\* C23: move-assigning a move-only wrapper to itself, or copy-assigning a
\* copyable wrapper to itself, is a no-op: storage, trampoline and table of
\* every wrapper are unchanged, no constructor, destructor or table operation
\* runs, and the process goes on, so the wrapper stays callable as before.
C23_SelfAssignmentIsNoOp ==
    [][C23_SelfAssigned =>
           /\ wrappers' = wrappers
           /\ last'.tr = <<>>
           /\ construct_count' = construct_count
           /\ destruct_count' = destruct_count
           /\ heap' = heap
           /\ ~terminated' /\ ~ub']_vars

C23_Witness ==
    /\ last.op = "CopyAssign"
    /\ last.w = last.src
    /\ last.tr = <<>>
    /\ Holding(wrappers[last.w], "Fix")
    /\ ~Stopped

----------------------------------------------------------------------------
(* C24 *)

\* the step assigns to the wrapper a new callable of type T, or move-assigns
\* to it another wrapper that is Holding<T>
C24_Reused(T) ==
    \/ last'.op = "FunctorAssign" /\ last'.type = T
    \/ /\ last'.op = "MoveAssign" /\ last'.w # last'.src
       /\ Holding(Source, T)

\* the callable the wrapper is given
C24_Given(T) ==
    IF last'.op = "FunctorAssign" THEN NewFunctor(T) ELSE Source.cur

\* C24: a move-only wrapper that was moved from while Holding<U> is reusable:
\* assigning a new callable of type T to it, or move-assigning another wrapper
\* that is Holding<T> into it, brings it to Holding<T> with the given callable
\* and bool true, and the moved-from U left in its storage is destroyed exactly
\* once, first, through U's table.
C24_MovedFromIsReusable ==
    [][last'.op \in {"FunctorAssign", "MoveAssign"} =>
       \A U \in Types, T \in Types :
           MovedFromState(Target, U) /\ C24_Reused(T) =>
               /\ last'.tr[1] = <<"destroy", U>>
               /\ Cardinality(DestroyEvents(last'.tr)) = 1
               /\ destruct_count' = destruct_count + DestructCount(Target.cur)
                      + (IF last'.op = "FunctorAssign"
                         THEN DestructCount(MovedFrom(NewFunctor(T))) ELSE 0)
               /\ Holding(TargetAfter, T)
               /\ TargetAfter.cur = C24_Given(T)
               /\ ~TargetAfter.buried /\ ~TargetAfter.destroyed
               /\ Bool(TargetAfter)
               /\ ~terminated' /\ ~ub']_vars

C24_Witness ==
    /\ last.op = "FunctorAssign"
    /\ last.tr[1] = <<"destroy", "UPtr">>
    /\ Holding(wrappers[last.w], "Fn17")
    /\ construct_count = 1
    /\ destruct_count = 0
    /\ \E v \in Wrappers : Holding(wrappers[v], "UPtr")

====
